---- MODULE Spec2Model ----
(***************************************************************************)
(* The frame scheduler of the GPT walkthrough view (class CanvasRender),   *)
(* the keyboard commands of the walkthrough (handleKeyDown) and the        *)
(* effects of LayerView that drive them, as a state machine.               *)
(*                                                                         *)
(* JavaScript runs every handler to completion on one thread, so each      *)
(* handler is one action.  The state of the program and of its host is     *)
(* gathered in the record World; an operator named after a method takes    *)
(* that record and returns the record the method leaves behind, so that a  *)
(* method calling another (setData -> markDirty, loop -> render ->         *)
(* runProgram -> markDirty) is the composition of their operators.         *)
(*                                                                         *)
(* Four specifications share the handlers.  Spec has every handler and the *)
(* layout of the element, at one clock reading; TimeSpec runs the clock    *)
(* under the scheduler; WalkSpec starts the keyboard commands from every   *)
(* walkthrough state of the bounds; LiveSpec adds the host's promise to    *)
(* run the frame callbacks it is asked for.                                *)
(***************************************************************************)
EXTENDS Integers, Sequences, FiniteSets, TLC

\* ------------------------------------------------------------------ bounds
\* The host clock (performance.now(), in ms) runs from 0 to MaxNow.
MaxNow == 16
\* A frame timestamp lies at most MaxSkew ms before the clock reading.
MaxSkew == 1
\* Handles returned by requestAnimationFrame are 1..MaxHandle, in a cycle.
MaxHandle == 2
\* The cap of the counter of markDirty calls since the last frame callback.
MaxCalls == 3
\* The cap of the counter of resize notifications since the last render.
MaxNotes == 3
\* The cap of the counter of setData calls that carry loaded data.
MaxLoads == 2
\* The program step calls view.markDirty at most MaxInner times in a render.
MaxInner == 1
\* The element box is measured in 1/BoxUnit CSS pixels, up to MaxBox of them.
BoxUnit == 2
MaxBox == 2
\* window.devicePixelRatio is 1..MaxRatio.
MaxRatio == 2
\* The walkthrough states the commands are tried on (WalkSpec).
MaxWalkTime == 3
MaxPhaseLength == 3
MaxPhaseIndex == 1
\* The cap of the counter of render passes.
MaxPasses == 2

\* ----------------------------------------------------- program constants
\* if (dt < 8) dt = 16;
MinDt == 8
DefaultDt == 16

\* Clock advances between two events.
Elapsed == {0, 3, 8}

\* KeyboardEvent.key values: the six keys handleKeyDown tests, and another.
Keys == {" ", "Backspace", "Delete", "f", "F", "a"}
ToggleKeys == {" "}
ResetKeys == {"Backspace", "Delete"}
SkipKeys == {"f", "F"}
CommandKeys == ToggleKeys \cup ResetKeys \cup SkipKeys

\* ICanvasData: "null" is the null! the constructor receives, "empty" is
\* { dataAndModel: null }, "loaded" is { dataAndModel: <data and model> }.
CanvasDatas == {"empty", "loaded"}

VARIABLES
    \* LayerView (React state)
    canvasRender,      \* "null" | "instance": the canvasRender state variable
    \* CanvasRender fields
    canvasData,        \* "null" | "empty" | "loaded"
    stopped,
    canvasSizeDirty,
    prevTime,
    rafHandle,
    isDirty,
    \* progState
    gptGpuModel,       \* "null" | "model"
    walkthrough,       \* [running, time, phaseLength, phaseIndex]
    size,              \* progState.render.size, [x, y]
    \* host
    canvasEl,          \* backing surface [width, height], device pixels
    bcr,               \* element box [width, height], in 1/BoxUnit CSS px
    devicePixelRatio,
    now,               \* performance.now()
    rafQueue,          \* handles of the frame callbacks requested and not yet run
    lastHandle,        \* the last handle requestAnimationFrame returned
    observing,         \* the ResizeObserver is connected
    \* observations of the calls made (not program state)
    events,            \* the calls the last handler made, in order ("loop" first when
                       \* the handler is the frame callback)
    view,              \* the IRenderView the last handler gave runProgram
    frameTime,         \* the timestamp of the frame callback that rendered
    rawDt,             \* that timestamp minus prevTime as the callback found it
    callsSinceFire,    \* markDirty calls (data set, not destroyed) since the last frame callback began
    reqsSinceFire,     \* requestAnimationFrame calls since the last frame callback began
    resizeNotes,       \* resize notifications since the last render pass
    notesSeen,         \* resize notifications the last render pass found
    modelCalls,        \* the calls into GptModel, in order
    randomUses,        \* the times this.random was handed out
    loadedCalls,       \* setData calls with loaded data
    boundAt,           \* the value of loadedCalls at the call that bound the model
    owed,              \* markDirty was called (data set, not destroyed) since the last render pass began
    passes,            \* parity of the number of render passes begun
    passCount,         \* the number of render passes begun, up to MaxPasses
    baseline,          \* the clock reading of the last markDirty call that requested a frame, or
                       \* the timestamp of the last frame callback that rendered, whichever came last
    baselineOf,        \* which of the two it is: "markDirty" | "render" ("constructor" before both)
    rawOf              \* the baselineOf that the last handler's render pass found

vars == <<canvasRender, canvasData, stopped, canvasSizeDirty, prevTime, rafHandle,
          isDirty, gptGpuModel, walkthrough, size, canvasEl, bcr, devicePixelRatio,
          now, rafQueue, lastHandle, observing, events, view,
          frameTime, rawDt, callsSinceFire, reqsSinceFire, resizeNotes, notesSeen,
          modelCalls, randomUses, loadedCalls, boundAt, owed, passes,
          passCount, baseline, baselineOf, rawOf>>

World ==
    [canvasRender |-> canvasRender, canvasData |-> canvasData, stopped |-> stopped,
     canvasSizeDirty |-> canvasSizeDirty, prevTime |-> prevTime, rafHandle |-> rafHandle,
     isDirty |-> isDirty, gptGpuModel |-> gptGpuModel, walkthrough |-> walkthrough,
     size |-> size, canvasEl |-> canvasEl, bcr |-> bcr,
     devicePixelRatio |-> devicePixelRatio, now |-> now, rafQueue |-> rafQueue,
     lastHandle |-> lastHandle, observing |-> observing, events |-> events, view |-> view, frameTime |-> frameTime,
     rawDt |-> rawDt, callsSinceFire |-> callsSinceFire, reqsSinceFire |-> reqsSinceFire,
     resizeNotes |-> resizeNotes, notesSeen |-> notesSeen, modelCalls |-> modelCalls,
     randomUses |-> randomUses, loadedCalls |-> loadedCalls, boundAt |-> boundAt,
     owed |-> owed, passes |-> passes, passCount |-> passCount,
     baseline |-> baseline, baselineOf |-> baselineOf, rawOf |-> rawOf]

\* The state a handler leaves behind (the record is computed once).
Commit(result) ==
  \E w \in {result} :
    /\ canvasRender' = w.canvasRender
    /\ canvasData' = w.canvasData
    /\ stopped' = w.stopped
    /\ canvasSizeDirty' = w.canvasSizeDirty
    /\ prevTime' = w.prevTime
    /\ rafHandle' = w.rafHandle
    /\ isDirty' = w.isDirty
    /\ gptGpuModel' = w.gptGpuModel
    /\ walkthrough' = w.walkthrough
    /\ size' = w.size
    /\ canvasEl' = w.canvasEl
    /\ bcr' = w.bcr
    /\ devicePixelRatio' = w.devicePixelRatio
    /\ now' = w.now
    /\ rafQueue' = w.rafQueue
    /\ lastHandle' = w.lastHandle
    /\ observing' = w.observing
    /\ events' = w.events
    /\ view' = w.view
    /\ frameTime' = w.frameTime
    /\ rawDt' = w.rawDt
    /\ callsSinceFire' = w.callsSinceFire
    /\ reqsSinceFire' = w.reqsSinceFire
    /\ resizeNotes' = w.resizeNotes
    /\ notesSeen' = w.notesSeen
    /\ modelCalls' = w.modelCalls
    /\ randomUses' = w.randomUses
    /\ loadedCalls' = w.loadedCalls
    /\ boundAt' = w.boundAt
    /\ owed' = w.owed
    /\ passes' = w.passes
    /\ passCount' = w.passCount
    /\ baseline' = w.baseline
    /\ baselineOf' = w.baselineOf
    /\ rawOf' = w.rawOf

\* n + 1, capped at max: the observation counters stop counting at their cap.
Sat(n, max) == IF n < max THEN n + 1 ELSE max

\* The number of times e occurs in seq.
Count(e, seq) == Cardinality({i \in 1..Len(seq) : seq[i] = e})

\* The position of the first e in seq, 0 when there is none.
IndexOf(e, seq) ==
    IF \E i \in 1..Len(seq) : seq[i] = e
    THEN CHOOSE i \in 1..Len(seq) : seq[i] = e /\ \A j \in 1..(i - 1) : seq[j] # e
    ELSE 0

NoView == [time |-> 0, dt |-> 0]

\* ------------------------------------------------------------------- host

\* window.requestAnimationFrame(this.loop): queues one callback and returns
\* its handle, a non-zero number (s.lastHandle after the call).
requestAnimationFrame(s) ==
    LET h == (s.lastHandle % MaxHandle) + 1
    IN [s EXCEPT !.lastHandle = h,
                 !.rafQueue = Append(@, h),
                 !.events = Append(@, "requestAnimationFrame"),
                 !.reqsSinceFire = Sat(@, MaxCalls)]

\* An event begins d ms after the previous one; the record of the calls the
\* previous handler made is dropped.
Begin(d) ==
    [World EXCEPT !.now = @ + d, !.events = <<>>,
                  !.view = NoView, !.frameTime = 0, !.rawDt = 0, !.notesSeen = 0,
                  !.rawOf = ""]

\* --------------------------------------------------------- CanvasRender

\* A markDirty that does not look at canvasData.
markDirtyReturnsOnStopped(s) == s.stopped

\* if (!this.canvasData || this.stopped) return;
markDirtyReturns(s) == s.canvasData = "null" \/ s.stopped

\* A markDirty that asks for a frame on every call.
alwaysRequests(s) == TRUE

\* if (!this.rafHandle)
noFramePending(s) == s.rafHandle = 0

\* A markDirty that requests the frame and leaves prevTime as it was.
keepsPrevTime(s) == s

\* this.prevTime = performance.now();
capturePrevTime(s) == [s EXCEPT !.prevTime = s.now]

markDirty(s) ==
    LET called == s.canvasData # "null" /\ ~s.stopped
        c == [s EXCEPT !.callsSinceFire = IF called THEN Sat(@, MaxCalls) ELSE @,
                       !.owed = @ \/ called,
                       !.events = Append(@, "markDirty")]
        m == IF markDirtyReturns(c) THEN c
             ELSE LET d == [c EXCEPT !.isDirty = TRUE]
                  IN IF noFramePending(d)
                     THEN LET r == requestAnimationFrame(capturePrevTime(d))
                          IN [r EXCEPT !.rafHandle = r.lastHandle]
                     ELSE d
    IN IF Len(m.rafQueue) > Len(s.rafQueue)
       THEN [m EXCEPT !.baseline = s.now, !.baselineOf = "markDirty"]
       ELSE m

RECURSIVE markDirtyTimes(_, _)
markDirtyTimes(s, n) == IF n = 0 THEN s ELSE markDirtyTimes(markDirty(s), n - 1)

\* runProgram(view, this.progState): the program step.  Of what it does, the
\* scheduler sees its calls of view.markDirty, n of them.
runProgram(s, v, n) ==
    markDirtyTimes([s EXCEPT !.view = v, !.events = Append(@, "runProgram")], n)

\* canvasEl.width = bcr.width * scale: the product, truncated to an integer
\* (canvas width and height are unsigned long).
toCanvasLength(len, scale) == (len * scale) \div BoxUnit

\* A resize that leaves the size-dirty flag set.
resizeCanvasKeepsFlag(s) ==
    LET w == toCanvasLength(s.bcr.width, s.devicePixelRatio)
        h == toCanvasLength(s.bcr.height, s.devicePixelRatio)
    IN [s EXCEPT !.canvasEl = [width |-> w, height |-> h],
                 !.size = [x |-> w, y |-> h],
                 !.events = Append(@, "resize")]

\* The body of if (this.canvasSizeDirty) { ... } in render.
resizeCanvas(s) ==
    LET w == toCanvasLength(s.bcr.width, s.devicePixelRatio)
        h == toCanvasLength(s.bcr.height, s.devicePixelRatio)
    IN [s EXCEPT !.canvasEl = [width |-> w, height |-> h],
                 !.size = [x |-> w, y |-> h],
                 !.canvasSizeDirty = FALSE,
                 !.events = Append(@, "resize")]

\* A render pass that leaves the overlay bus alone.
notifySkipped(s) == s

\* this.progState.htmlSubs.notify()
notify(s) == [s EXCEPT !.events = Append(@, "notify")]

\* A render pass that sizes the canvas on every frame.
renderAlwaysResizes(s, time, dt, n) ==
    LET b == [s EXCEPT !.passes = 1 - @, !.passCount = Sat(@, MaxPasses), !.owed = FALSE,
                       !.notesSeen = s.resizeNotes, !.resizeNotes = 0]
    IN notify(runProgram(resizeCanvas(b), [time |-> time, dt |-> dt], n))

render(s, time, dt, n) ==
    LET b == [s EXCEPT !.passes = 1 - @, !.passCount = Sat(@, MaxPasses), !.owed = FALSE,
                       !.notesSeen = s.resizeNotes, !.resizeNotes = 0]
        r == IF b.canvasSizeDirty THEN resizeCanvas(b) ELSE b
        p == runProgram(r, [time |-> time, dt |-> dt], n)
    IN notify(p)

\* A loop that renders whether or not anything asked for a redraw.
loopIgnoresDirty(s) == s.stopped

\* A loop that does not look at stopped.
loopIgnoresStopped(s) == ~s.isDirty

\* if (!this.isDirty || this.stopped)
loopReturns(s) == ~s.isDirty \/ s.stopped

\* An early return that leaves the handle of the frame that just ran.
loopExitKeepsHandle(s) == s

\* An early return that also takes the frame for handled.
loopExitClearsDirty(s) == [s EXCEPT !.rafHandle = 0, !.isDirty = FALSE]

\* { this.rafHandle = 0; return; }
loopExit(s) == [s EXCEPT !.rafHandle = 0]

\* A floor that also replaces a delta of exactly 8 ms.
deltaTimeFloorsEight(time, prev) ==
    LET dt == time - prev
    IN IF dt <= MinDt THEN DefaultDt ELSE dt

\* let dt = time - this.prevTime; ... if (dt < 8) dt = 16;
deltaTime(time, prev) ==
    LET dt == time - prev
    IN IF dt < MinDt THEN DefaultDt ELSE dt

\* A loop that ends a render pass without asking for the next frame.
loopRenewSkipped(s) == s

\* A loop that ends a render pass as it ends an idle frame.
loopRenewForgets(s) == [s EXCEPT !.rafHandle = 0]

\* this.rafHandle = requestAnimationFrame(this.loop), the last line of loop.
loopRenew(s) ==
    LET r == requestAnimationFrame(s)
    IN [r EXCEPT !.rafHandle = r.lastHandle]

loop(s, time, n) ==
    IF loopReturns(s) THEN loopExit(s)
    ELSE LET c == [s EXCEPT !.isDirty = FALSE]
             dt == deltaTime(time, c.prevTime)
             p == [c EXCEPT !.prevTime = time]
         IN loopRenew(render(p, time, dt, n))

\* this.progState.gptGpuModel = initModel(...): builds the model and returns
\* its handle.
initModel(s) ==
    [s EXCEPT !.gptGpuModel = "model", !.modelCalls = Append(@, "initModel")]

\* setModelInputData(..., this.random): fills the model's input, with numbers
\* drawn from the generator it is handed; it has finished when it returns.
setModelInputData(s) ==
    [s EXCEPT !.modelCalls = Append(@, "setModelInputData"), !.randomUses = @ + 1]

\* runModel(...): one forward pass; the activations are computed when it
\* returns.
runModel(s) == [s EXCEPT !.modelCalls = Append(@, "runModel")]

\* A setData that binds a model whenever it is given data.
bindsEveryLoad(s, data) == data = "loaded"

\* if (data.dataAndModel && !this.progState.gptGpuModel)
bindsModel(s, data) == data = "loaded" /\ s.gptGpuModel = "null"

\* A setData that binds the model and leaves its forward pass out.
setDataSkipsRunModel(s, data) ==
    LET a == [s EXCEPT !.canvasData = data,
                       !.loadedCalls = IF data = "loaded" THEN Sat(@, MaxLoads) ELSE @]
    IN markDirty(IF bindsModel(a, data)
                 THEN setModelInputData(initModel([a EXCEPT !.boundAt = a.loadedCalls]))
                 ELSE a)

setData(s, data) ==
    LET a == [s EXCEPT !.canvasData = data,
                       !.loadedCalls = IF data = "loaded" THEN Sat(@, MaxLoads) ELSE @]
        b == IF bindsModel(a, data)
             THEN runModel(setModelInputData(initModel([a EXCEPT !.boundAt = a.loadedCalls])))
             ELSE a
    IN markDirty(b)

destroy(s) == [s EXCEPT !.stopped = TRUE]

\* ------------------------------------------------------------ LayerView

\* A skip-to-end that leaves the walkthrough running.
skipKeepsRunning(w) == [w EXCEPT !.time = w.phaseLength]

\* A reset that winds the walkthrough back by one phase length.
resetWindsBack(w) == [w EXCEPT !.running = FALSE, !.time = w.time - w.phaseLength]

\* The three commands of handleKeyDown, on the walkthrough record.
toggle(w) == [w EXCEPT !.running = ~w.running]
reset(w) == [w EXCEPT !.running = FALSE, !.time = 0]
skipToEnd(w) == [w EXCEPT !.running = FALSE, !.time = w.phaseLength]

\* A command that changes the walkthrough and asks for no redraw.
commandSilent(s, effect) ==
    [s EXCEPT !.walkthrough = effect, !.events = Append(@, "command")]

\* A command of handleKeyDown: the walkthrough changes, then markDirty().
command(s, effect) ==
    markDirty([s EXCEPT !.walkthrough = effect, !.events = Append(@, "command")])

handleKeyDown(s, key) ==
    IF s.canvasRender = "null" THEN s
    ELSE LET a == IF key = " "
                  THEN command(s, toggle(s.walkthrough))
                  ELSE s
             b == IF key = "Backspace" \/ key = "Delete"
                  THEN command(a, reset(a.walkthrough))
                  ELSE a
             c == IF key = "f" \/ key = "F"
                  THEN command(b, skipToEnd(b.walkthrough))
                  ELSE b
         IN c

\* The ResizeObserver callback.
resizeCallback(s) ==
    markDirty([s EXCEPT !.canvasSizeDirty = TRUE, !.resizeNotes = Sat(@, MaxNotes)])

\* ---------------------------------------------------------------- states

\* The boxes the element takes: as it grows wider it grows less tall.
Boxes == {[width |-> w, height |-> MaxBox + 1 - w] : w \in 1..MaxBox}

\* A CanvasRender whose first render pass takes the canvas as it finds it.
canvasSizeCleanField == FALSE

\* canvasSizeDirty = true;
canvasSizeDirtyField == TRUE

InitWith(w, boxes, ratios) ==
    /\ canvasRender = "null"
    /\ canvasData = "null"
    /\ stopped = FALSE
    /\ canvasSizeDirty = canvasSizeDirtyField
    /\ now = 0
    /\ prevTime = 0
    /\ rafHandle = 0
    /\ isDirty = FALSE
    /\ gptGpuModel = "null"
    /\ walkthrough = w
    /\ size = [x |-> 0, y |-> 0]
    /\ canvasEl = [width |-> 300, height |-> 150]
    /\ bcr \in boxes
    /\ devicePixelRatio \in ratios
    /\ rafQueue = <<>>
    /\ lastHandle = 0
    /\ observing = TRUE
    /\ events = <<>>
    /\ view = NoView
    /\ frameTime = 0
    /\ rawDt = 0
    /\ callsSinceFire = 0
    /\ reqsSinceFire = 0
    /\ resizeNotes = 0
    /\ notesSeen = 0
    /\ modelCalls = <<>>
    /\ randomUses = 0
    /\ loadedCalls = 0
    /\ boundAt = 0
    /\ owed = FALSE
    /\ passes = 0
    /\ passCount = 0
    /\ baseline = 0
    /\ baselineOf = "constructor"
    /\ rawOf = ""

\* The walkthrough as the program starts, paused at the start of a phase.
\* The phase has the length of the spec's example.
StartWalkthrough == [running |-> FALSE, time |-> 0, phaseLength |-> 10, phaseIndex |-> 0]

StartBox == [width |-> 1, height |-> MaxBox]

Init == InitWith(StartWalkthrough, Boxes, {MaxRatio})

\* --------------------------------------------------------------- actions
\* Each handler runs d ms after the previous event, d drawn from E.
\*
\* React runs the effects of one commit, and the cleanups of one unmount,
\* together: no event of the host comes between them.  So the commit that
\* puts the CanvasRender in the canvasRender state registers the keydown
\* listener that holds it and calls its setData in one step; and the cleanup
\* that calls destroy() disconnects the ResizeObserver and removes the keydown
\* listener in one step.  A CanvasRender destroyed before that commit never
\* reaches the canvasRender state.  What outlives destroy() are the frame
\* callback the host still holds and the markDirty handed to progState.

\* The dataAndModel a setData effect can pass: it is set once, from null.
NextDatas == IF canvasData = "loaded" THEN {"loaded"} ELSE CanvasDatas

\* React commits the render that follows setCanvasRender(canvasRenderLocal)
\* and runs its effects, that of canvasRender?.setData({ dataAndModel }) among
\* them.
CommitCanvasRender(E) ==
    /\ canvasRender = "null"
    /\ ~stopped
    /\ \E d \in E, data \in CanvasDatas :
         /\ now + d <= MaxNow
         /\ Commit(setData([Begin(d) EXCEPT !.canvasRender = "instance"], data))

\* useEffect(() => { canvasRender?.setData({ dataAndModel }); }, ...), run
\* again.
SetData(E) ==
    /\ canvasRender = "instance"
    /\ ~stopped
    /\ \E d \in E, data \in NextDatas :
         /\ now + d <= MaxNow
         /\ Commit(setData(Begin(d), data))

KeyDown(E) ==
    /\ ~stopped
    /\ \E d \in E, key \in Keys :
         /\ now + d <= MaxNow
         /\ Commit(handleKeyDown(Begin(d), key))

ResizeNotify(E) ==
    /\ observing
    /\ \E d \in E :
         /\ now + d <= MaxNow
         /\ Commit(resizeCallback(Begin(d)))

\* A holder of progState.markDirty or progState.walkthrough.markDirty calls it.
MarkDirtyCall(E) ==
    \E d \in E :
      /\ now + d <= MaxNow
      /\ Commit(markDirty(Begin(d)))

\* The element's box changes on screen (no handler of the program runs).
Layout(E) ==
    \E d \in E, b \in Boxes :
      /\ now + d <= MaxNow
      /\ b # bcr
      /\ Commit([Begin(d) EXCEPT !.bcr = b])

\* The cleanup of the effect that made the CanvasRender.
Cleanup(E) ==
    /\ ~stopped
    /\ \E d \in E :
         /\ now + d <= MaxNow
         /\ Commit([destroy(Begin(d)) EXCEPT !.observing = FALSE])

\* The host runs the oldest frame callback, with the frame's timestamp, which
\* lies skew ms before the clock reading, skew drawn from 0..S.
FrameFires(E, S) ==
    /\ rafQueue # <<>>
    /\ \E d \in E, skew \in 0..S, n \in 0..MaxInner :
         /\ now + d <= MaxNow
         /\ skew <= now + d
         /\ LET b == Begin(d)
                time == b.now - skew
                f == [b EXCEPT !.rafQueue = Tail(@), !.events = <<"loop">>,
                               !.callsSinceFire = 0, !.reqsSinceFire = 0]
            IN \E r \in {loop(f, time, n)} :
                 Commit(IF Count("runProgram", r.events) > 0
                        THEN [r EXCEPT !.frameTime = time, !.rawDt = time - prevTime,
                                       !.rawOf = baselineOf,
                                       !.baseline = time, !.baselineOf = "render"]
                        ELSE r)

\* The handlers and the host, every event at the same clock reading: the
\* clock only feeds the dt a render pass is given, and TimeSpec drives it.
Instant == {0}

Next ==
    \/ CommitCanvasRender(Instant)
    \/ SetData(Instant)
    \/ KeyDown(Instant)
    \/ ResizeNotify(Instant)
    \/ MarkDirtyCall(Instant)
    \/ Layout(Instant)
    \/ Cleanup(Instant)
    \/ FrameFires(Instant, 0)

Spec == Init /\ [][Next]_vars

\* The scheduler under a running clock, with one box and no keyboard.
TimeNext ==
    \/ CommitCanvasRender(Elapsed)
    \/ SetData(Elapsed)
    \/ ResizeNotify(Elapsed)
    \/ MarkDirtyCall(Elapsed)
    \/ Cleanup(Elapsed)
    \/ FrameFires(Elapsed, MaxSkew)

TimeInit == InitWith(StartWalkthrough, {StartBox}, {MaxRatio})

TimeSpec == TimeInit /\ [][TimeNext]_vars

\* The keyboard commands from every walkthrough state of the bounds.
Walkthroughs ==
    [running : BOOLEAN, time : 0..MaxWalkTime, phaseLength : 1..MaxPhaseLength,
     phaseIndex : 0..MaxPhaseIndex]

WalkInit == \E w \in Walkthroughs \cup {StartWalkthrough} : InitWith(w, {StartBox}, {MaxRatio})

WalkNext ==
    \/ CommitCanvasRender(Instant)
    \/ SetData(Instant)
    \/ KeyDown(Instant)
    \/ Cleanup(Instant)
    \/ FrameFires(Instant, 0)

WalkSpec == WalkInit /\ [][WalkNext]_vars

\* The scheduler with one box, under a host that runs every frame callback it
\* was asked for.
LiveNext ==
    \/ CommitCanvasRender(Instant)
    \/ SetData(Instant)
    \/ KeyDown(Instant)
    \/ ResizeNotify(Instant)
    \/ MarkDirtyCall(Instant)
    \/ Cleanup(Instant)
    \/ FrameFires(Instant, 0)

LiveSpec == TimeInit /\ [][LiveNext]_vars /\ WF_vars(FrameFires(Instant, 0))

\* ---------------------------------------------------------------- claims

Rendered == Count("runProgram", events) > 0
FrameCallbackRan == Len(events) > 0 /\ Head(events) = "loop"

\* C1: at most one frame callback is outstanding with the host in every
\* reachable state.  The markDirty calls made (with data set and the scheduler
\* not destroyed) since the last frame callback began, however many, go with
\* exactly one requestAnimationFrame request, the callback then outstanding;
\* and a frame callback that renders makes exactly one request, its own
\* renewal, whatever markDirty calls the program step makes.
C1_Coalescing ==
    /\ Len(rafQueue) <= 1
    /\ reqsSinceFire <= 1
    /\ callsSinceFire >= 1 => (reqsSinceFire = 1 /\ Len(rafQueue) = 1)
    /\ Rendered => Count("requestAnimationFrame", events) = 1

\* Three markDirty calls on a scheduler that was idle: the one request is the
\* first the host ever received.
C1_Witness ==
    /\ callsSinceFire >= 3
    /\ lastHandle = 1
    /\ rafQueue = <<1>>
    /\ ~FrameCallbackRan

\* What a call of a CanvasRender method or of a handler that holds the
\* CanvasRender would leave behind, were it made now.
CallsNow ==
    LET b == [Begin(0) EXCEPT !.canvasRender = "instance"]
    IN {markDirty(b), resizeCallback(b)}
         \cup {setData(b, data) : data \in CanvasDatas}
         \cup {handleKeyDown(b, key) : key \in Keys}

\* C2: once destroy() has been called, no handler starts a render pass,
\* notifies the overlay bus or requests a frame callback; nor would a
\* markDirty or setData call, a resize notification or a walkthrough
\* command, were it to reach the destroyed CanvasRender.
C2_NoWorkAfterDestroy ==
    stopped =>
        /\ Count("runProgram", events) = 0
        /\ Count("notify", events) = 0
        /\ Count("requestAnimationFrame", events) = 0
        /\ Count("resize", events) = 0
        /\ \A r \in CallsNow :
             /\ Count("runProgram", r.events) = 0
             /\ Count("notify", r.events) = 0
             /\ Count("requestAnimationFrame", r.events) = 0
             /\ r.rafQueue = rafQueue

\* A frame callback queued before destroy() ran after it, the dirty flag set.
C2_Witness == stopped /\ FrameCallbackRan /\ isDirty

\* C8: initModel, setModelInputData and runModel are each called at most once,
\* in that order, by the first setData call that carries loaded data and by no
\* other, and the generator is handed out once, to setModelInputData.
C8_ModelBinding ==
    /\ modelCalls \in {<<>>, <<"initModel", "setModelInputData", "runModel">>}
    /\ (modelCalls # <<>>) <=> (loadedCalls >= 1)
    /\ (modelCalls # <<>>) <=> (gptGpuModel = "model")
    /\ modelCalls # <<>> => boundAt = 1
    /\ randomUses = IF modelCalls = <<>> THEN 0 ELSE 1

\* A second setData call with loaded data has been made.
C8_Witness == loadedCalls >= 2 /\ Len(modelCalls) = 3 /\ canvasData = "loaded"

\* C9: a handler notifies the overlay bus exactly once if it is a frame
\* callback that renders, after the program step of that pass and before the
\* request of the next frame callback, and not at all otherwise.
C9_NotifyOncePerRender ==
    /\ Count("notify", events) = Count("runProgram", events)
    /\ Count("notify", events) <= 1
    /\ Count("notify", events) = 1 =>
          /\ FrameCallbackRan
          /\ IndexOf("runProgram", events) < IndexOf("notify", events)
          /\ IndexOf("notify", events) < IndexOf("requestAnimationFrame", events)
          /\ Count("requestAnimationFrame", events) = 1

\* A render pass whose program step called markDirty.
C9_Witness ==
    /\ Rendered
    /\ Count("notify", events) = 1
    /\ Count("markDirty", events) >= 1

\* A step in which the host ran a frame callback.
FrameStep == rafQueue # <<>> /\ rafQueue' = Tail(rafQueue) /\ Len(events') > 0 /\ Head(events') = "loop"

\* C3, as claimed: a frame callback that fires after destroy() leaves every
\* scheduler field as it found it: the dirty flag, rafHandle, prevTime, the
\* size-dirty flag and the backing-surface size.
C3_Original ==
    [][(stopped /\ FrameStep) =>
         UNCHANGED <<isDirty, rafHandle, prevTime, canvasSizeDirty, canvasEl, size>>]_vars

\* C3, amended: a frame callback that fires after destroy() sets rafHandle to
\* 0 and leaves the dirty flag, prevTime, the size-dirty flag and the
\* backing-surface size as it found them.
C3_Amended ==
    [][(stopped /\ FrameStep) =>
         /\ rafHandle' = 0
         /\ UNCHANGED <<isDirty, prevTime, canvasSizeDirty, canvasEl, size>>]_vars

\* A frame callback has run on a destroyed scheduler whose flags were set, at a
\* timestamp other than prevTime.
C3_Witness ==
    /\ stopped
    /\ FrameCallbackRan
    /\ isDirty
    /\ canvasSizeDirty
    /\ rafHandle = 0
    /\ prevTime # now

\* C4: a frame callback that renders hands the render pass the raw delta
\* (its timestamp minus prevTime) when that is at least 8 ms and 16 ms when it
\* is less, zero and negative deltas included; so dt >= 8, a delta of 3 ms
\* gives 16 ms, and prevTime becomes the frame's timestamp either way.
C4_DeltaTimeFloor ==
    Rendered =>
        /\ rawDt >= 8 => view.dt = rawDt
        /\ rawDt < 8 => view.dt = 16
        /\ view.dt >= 8
        /\ view.time = frameTime
        /\ prevTime = frameTime

\* A render pass 3 ms after the markDirty call that asked for it.
C4_Witness == Rendered /\ rawDt = 3 /\ view.dt = 16 /\ prevTime = frameTime

\* The walkthrough a key leaves behind, pressed in the current state.
Pressed(key) == handleKeyDown(World, key).walkthrough
PressedTwice(key) == handleKeyDown(handleKeyDown(World, key), key).walkthrough

\* C5: in every walkthrough state, once handleKeyDown has a CanvasRender,
\* Toggle negates running and keeps time; Reset gives running = false and
\* time = 0; Skip-to-end gives running = false and time = phaseLength; none
\* of them, nor any other key, changes phaseLength or phaseIndex.  From
\* {running: false, time: 0, phaseLength: 10}, Toggle, Reset, Skip-to-end pass
\* through running = true, then running = false and time = 0, then
\* running = false and time = 10.
C5_CommandEffects ==
    canvasRender = "instance" =>
        /\ \A key \in ToggleKeys :
             /\ Pressed(key).running = ~walkthrough.running
             /\ Pressed(key).time = walkthrough.time
        /\ \A key \in ResetKeys :
             /\ Pressed(key).running = FALSE
             /\ Pressed(key).time = 0
        /\ \A key \in SkipKeys :
             /\ Pressed(key).running = FALSE
             /\ Pressed(key).time = walkthrough.phaseLength
        /\ \A key \in Keys :
             /\ Pressed(key).phaseLength = walkthrough.phaseLength
             /\ Pressed(key).phaseIndex = walkthrough.phaseIndex
             /\ key \notin CommandKeys => Pressed(key) = walkthrough
        /\ (~walkthrough.running /\ walkthrough.time = 0 /\ walkthrough.phaseLength = 10) =>
             LET s1 == handleKeyDown(World, " ")
                 s2 == handleKeyDown(s1, "Backspace")
                 s3 == handleKeyDown(s2, "f")
             IN /\ s1.walkthrough.running /\ s1.walkthrough.time = 0
                /\ ~s2.walkthrough.running /\ s2.walkthrough.time = 0
                /\ ~s3.walkthrough.running /\ s3.walkthrough.time = 10

\* Skip-to-end has acted on the walkthrough of the spec's example, which now
\* stands paused at the end of its phase of length 10.
C5_Witness ==
    /\ canvasRender = "instance"
    /\ walkthrough = [running |-> FALSE, time |-> 10, phaseLength |-> 10, phaseIndex |-> 0]
    /\ Count("markDirty", events) = 1

\* C6, as claimed: every command, applied twice in a row, leaves the
\* walkthrough as one application leaves it.
C6_Original ==
    canvasRender = "instance" =>
        \A key \in CommandKeys : PressedTwice(key) = Pressed(key)

\* C6, amended: Reset and Skip-to-end, applied twice in a row, leave the
\* walkthrough as one application leaves it; Toggle does not: applied twice
\* it gives back the walkthrough it started from, which one application
\* changes.
C6_Amended ==
    canvasRender = "instance" =>
        /\ \A key \in ResetKeys \cup SkipKeys : PressedTwice(key) = Pressed(key)
        /\ \A key \in ToggleKeys :
             /\ PressedTwice(key) = walkthrough
             /\ Pressed(key) # walkthrough

\* A running walkthrough in the middle of its phase, where each command
\* changes something, after a command was handled.
C6_Witness ==
    /\ canvasRender = "instance"
    /\ walkthrough.running
    /\ walkthrough.time > 0
    /\ walkthrough.time < walkthrough.phaseLength
    /\ Count("markDirty", events) = 1

\* C7: a render pass that follows one or more resize notifications resizes
\* the backing surface exactly once, before the program step, to the element
\* box as it is at that render pass times the device pixel ratio, and leaves
\* size-dirty clear.
C7_ResizeCoalescing ==
    (Rendered /\ notesSeen >= 1) =>
        /\ Count("resize", events) = 1
        /\ IndexOf("resize", events) < IndexOf("runProgram", events)
        /\ canvasEl = [width |-> (bcr.width * devicePixelRatio) \div BoxUnit,
                       height |-> (bcr.height * devicePixelRatio) \div BoxUnit]
        /\ size = [x |-> canvasEl.width, y |-> canvasEl.height]
        /\ ~canvasSizeDirty

\* Three notifications, the box changed after the scheduler was first asked
\* for a frame, one resize to the box of the render pass.
C7_Witness ==
    /\ Rendered
    /\ notesSeen >= 3
    /\ Count("resize", events) = 1
    /\ bcr.width # bcr.height
    /\ canvasEl.width # canvasEl.height

\* C10: if the host runs every frame callback it is asked for and destroy()
\* is not called, every markDirty call made with data set, one made inside a
\* render pass included, is followed by the start of a later render pass.
C10_RedrawFollows ==
    \A p \in {0, 1} :
        (owed /\ ~stopped /\ passes = p) ~> (passes # p \/ stopped)

\* A markDirty call made inside a render pass waits for the next one.
C10_Witness == owed /\ ~stopped /\ Rendered /\ Count("markDirty", events) >= 1

\* A step in which the host runs a frame callback.
FrameRuns == FrameCallbackRan'

\* C11: a render pass runs only in a frame callback, which found the dirty
\* flag set by a markDirty call (data set, not destroyed) made since the
\* render pass before it began, and runs once in it: so there are no more
\* render passes than such calls.  A frame callback that finds the dirty flag
\* clear does not render, requests no frame, and leaves no frame pending and
\* rafHandle 0.
C11_NoRedrawWhenIdle ==
    /\ [](Rendered => FrameCallbackRan /\ Count("runProgram", events) = 1)
    /\ [][FrameRuns =>
           /\ Rendered' => isDirty /\ owed
           /\ ~isDirty => /\ ~Rendered'
                          /\ Count("requestAnimationFrame", events') = 0
                          /\ rafQueue' = <<>>
                          /\ rafHandle' = 0]_vars

\* An idle frame callback has run on a live scheduler that rendered before.
C11_Witness ==
    /\ FrameCallbackRan /\ ~Rendered
    /\ ~stopped /\ canvasData # "null" /\ passCount = 1
    /\ ~isDirty /\ rafHandle = 0 /\ rafQueue = <<>>

\* A step whose handler called markDirty.
MarkDirtyStep == Count("markDirty", events') > 0

\* No frame callback is pending and the scheduler knows it.
Quiet == rafQueue = <<>> /\ rafHandle = 0

\* C12: if from some point on no handler calls markDirty, the scheduler
\* comes to rest with no frame callback pending and rafHandle 0, given that
\* the host runs the callbacks it holds.  A render pass leaves one callback
\* pending; when no markDirty call follows the pass, that callback does not
\* render and leaves the scheduler at rest; and only a handler that calls
\* markDirty ends the rest.
C12_Quiescence ==
    /\ <>[][~MarkDirtyStep]_vars => <>[]Quiet
    /\ [](Rendered => Len(rafQueue) = 1 /\ rafHandle # 0)
    /\ [][FrameRuns /\ ~owed => ~Rendered' /\ Quiet']_vars
    /\ [][Quiet /\ ~Quiet' => MarkDirtyStep]_vars

\* The scheduler at rest after its second render pass and one idle frame.
C12_Witness ==
    /\ Quiet /\ FrameCallbackRan /\ ~Rendered
    /\ passCount = 2 /\ ~owed /\ ~stopped

C14_CommandMarksDirty ==
    /\ canvasRender = "instance" /\ ~stopped => canvasData # "null"
    /\ Count("command", events) > 0 =>
          /\ ~stopped /\ canvasData # "null"
          /\ Count("markDirty", events) = Count("command", events)
          /\ isDirty
          /\ Len(rafQueue) = 1
          /\ rafHandle = rafQueue[1]
    /\ canvasRender = "instance" /\ ~stopped =>
          \A key \in CommandKeys :
            LET r == handleKeyDown(Begin(0), key)
            IN /\ Count("command", r.events) = 1
               /\ r.isDirty
               /\ Len(r.rafQueue) = 1
               /\ r.rafHandle = r.rafQueue[1]

\* A command handled while the scheduler was at rest: it requested the frame.
C14_Witness ==
    /\ events = <<"command", "markDirty", "requestAnimationFrame">>
    /\ walkthrough.running
    /\ passCount >= 1

\* The canvas and render.size as render computes them from the box.
SizedToBox ==
    LET w == toCanvasLength(bcr.width, devicePixelRatio)
        h == toCanvasLength(bcr.height, devicePixelRatio)
    IN canvasEl = [width |-> w, height |-> h] /\ size = [x |-> w, y |-> h]

\* C15: the canvas width and height and render.size are written once, in a
\* render pass that found the size-dirty flag set, and by no other handler;
\* a render pass that finds the flag clear leaves them as they were.
C15_ResizeOnlyInDirtyRender ==
    /\ [](Count("resize", events) > 0 => Rendered /\ Count("resize", events) = 1)
    /\ [][/\ (canvasEl' # canvasEl \/ size' # size) =>
               FrameRuns /\ Rendered' /\ canvasSizeDirty /\ Count("resize", events') = 1
          /\ (FrameRuns /\ Count("resize", events') > 0) => canvasSizeDirty
          /\ (FrameRuns /\ Rendered' /\ canvasSizeDirty) => Count("resize", events') = 1
          /\ (FrameRuns /\ Rendered' /\ ~canvasSizeDirty) =>
               /\ Count("resize", events') = 0
               /\ UNCHANGED <<canvasEl, size>>]_vars

\* A render pass with the flag clear, after the box changed with no
\* notification: the canvas keeps the size of the box as it was.
C15_Witness ==
    /\ Rendered /\ Count("resize", events) = 0
    /\ passCount = 2 /\ ~SizedToBox

\* C16: the size-dirty flag is set from construction to the first render
\* pass, and the first render pass sizes the canvas to the box before the
\* program step.
C16_SizeDirtyOnConstruction ==
    /\ passCount = 0 => canvasSizeDirty
    /\ (Rendered /\ passCount = 1) =>
          /\ Count("resize", events) = 1
          /\ IndexOf("resize", events) < IndexOf("runProgram", events)
          /\ SizedToBox

\* The first render pass has run and no resize notification came before it.
C16_Witness ==
    /\ Rendered /\ passCount = 1 /\ notesSeen = 0
    /\ Count("resize", events) = 1 /\ SizedToBox

\* C17: between handlers, and so whenever a render pass starts, the model
\* handle is bound exactly when setModelInputData and runModel have returned
\* for it, in that order.
C17_NoPartialActivations ==
    /\ gptGpuModel = "model" =>
          /\ Count("setModelInputData", modelCalls) = 1
          /\ Count("runModel", modelCalls) = 1
          /\ IndexOf("setModelInputData", modelCalls) < IndexOf("runModel", modelCalls)
    /\ Count("runModel", modelCalls) = 0 => gptGpuModel = "null"
    /\ Rendered =>
          gptGpuModel = IF Count("runModel", modelCalls) = 1 THEN "model" ELSE "null"

\* A render pass with no model bound, then one with the model bound.
C17_Witness ==
    /\ Rendered /\ passCount = 2 /\ gptGpuModel = "model"
    /\ loadedCalls = 1 /\ canvasData = "loaded"

\* C18: between handlers rafHandle is non-zero exactly when the host holds a
\* frame callback, whose handle it is; and a scheduler that is dirty and not
\* destroyed has a frame callback pending.
C18_NoLostWakeup ==
    /\ (rafHandle # 0) <=> (rafQueue # <<>>)
    /\ rafHandle # 0 => rafQueue = <<rafHandle>>
    /\ (isDirty /\ ~stopped) => rafQueue # <<>>

\* The program step called markDirty in a render pass: dirty, and the loop
\* renewed the request.
C18_Witness ==
    /\ Rendered /\ isDirty /\ ~stopped
    /\ IndexOf("runProgram", events) < IndexOf("markDirty", events)
    /\ rafQueue = <<rafHandle>>

\* C19: while the CanvasRender has no data, no call sets the dirty flag or
\* requests a frame, whether it comes from a holder of markDirty, a resize
\* notification or a walkthrough command, so no render pass runs; the
\* size-dirty flag stays set; and the first setData call sets the dirty flag
\* and requests the frame.
C19_NoFrameBeforeData ==
    /\ [](canvasData = "null" =>
            /\ ~isDirty /\ rafHandle = 0 /\ rafQueue = <<>>
            /\ passCount = 0 /\ ~Rendered
            /\ Count("requestAnimationFrame", events) = 0
            /\ canvasSizeDirty
            /\ \A key \in Keys :
                 LET r == handleKeyDown([Begin(0) EXCEPT !.canvasRender = "instance"], key)
                 IN ~r.isDirty /\ r.rafQueue = <<>>
            /\ LET r == resizeCallback(Begin(0))
               IN ~r.isDirty /\ r.rafQueue = <<>> /\ r.canvasSizeDirty)
    /\ [][(canvasData = "null" /\ canvasData' # "null") =>
            /\ isDirty'
            /\ Count("requestAnimationFrame", events') = 1
            /\ Len(rafQueue') = 1
            /\ rafHandle' = rafQueue'[1]]_vars

\* The first setData call, after a resize notification and a markDirty call
\* that came before it: the frame is requested, the size-dirty flag still set.
C19_Witness ==
    /\ canvasData # "null" /\ passCount = 0 /\ ~stopped
    /\ resizeNotes >= 1 /\ canvasSizeDirty
    /\ events = <<"markDirty", "requestAnimationFrame">>
    /\ callsSinceFire = 1

====
